---- MODULE Spec2Model ----
(***************************************************************************)
(* A model of the escrow program of contracts/programs/workspace/src/lib.rs *)
(* (an Anchor program): the escrow accounts with their lamports and data,  *)
(* the wallets, the clock, and one action per instruction.  An instruction *)
(* is one atomic step: Anchor's account validation (the #[derive(Accounts)] *)
(* struct, checked before the handler runs), then the handler.  A failed    *)
(* instruction is rolled back by the runtime: it changes nothing but        *)
(* `last`, the observation of the instruction's result.                     *)
(***************************************************************************)
EXTENDS Integers, Sequences, FiniteSets, TLC

VARIABLES
    now,        \* Clock::get()?.unix_timestamp
    lamports,   \* wallet key -> lamports of the wallet
    escrows,    \* escrow PDA key -> [lamports, data]: the EscrowAccount accounts
    last,       \* the last instruction and its result: [op, err]
    configs     \* authority key -> data of the Config account of that authority

vars == <<now, lamports, escrows, last, configs>>

----------------------------------------------------------------------------
(* Bounds of the model *)

MaxTime == 2
MaxAmount == 2
MaxDeposit == 1
LamportsPerByte == 1

----------------------------------------------------------------------------
(* Values *)

\* A string of n bytes, all b.
Bytes(n, b) == [i \in 1..n |-> b]

\* The wallets: the identities that sign and receive.
Keys == {"K1", "K2", "K3"}

\* The (client, freelancer) pairs that create escrows: K1 hires K2, and K2
\* hires K1.  K3 is party to no escrow.
Deals == {<<"K1", "K2">>, <<"K2", "K1">>}

\* The pair that creates the escrow where outside deposits are modelled.
ExtDeals == {<<"K1", "K2">>}

EscrowIdMax == 32
MetadataMax == 256
MAX_SEED_LEN == 32

\* escrow_id inputs: at the limit, and one byte over it.
EscrowIds == {Bytes(EscrowIdMax, 1), Bytes(EscrowIdMax + 1, 1)}

\* metadata_ref inputs: short, at the limit, and one byte over it.
MetadataRefs == {Bytes(1, 7), Bytes(MetadataMax, 8), Bytes(MetadataMax + 1, 9)}

Amounts == 0..MaxAmount
Deadlines == 0..MaxTime

NoKey == <<>>

EscrowAccount_LEN == 32 + 32 + 8 + 8 + 1 + 1 + (4 + 256) + (4 + 32) + 1

\* Rent::get()?.minimum_balance(data_len)
minimum_balance(data_len) == data_len * LamportsPerByte

rent_exempt == minimum_balance(8 + EscrowAccount_LEN)

\* u64::saturating_sub
saturating_sub(a, b) == IF a > b THEN a - b ELSE 0

----------------------------------------------------------------------------
(* Program-derived addresses.  The address is a collision-resistant hash of *)
(* the seeds and the bump: modelled by the seeds themselves.  No seed may   *)
(* be longer than MAX_SEED_LEN bytes; the keys are 32 bytes, so only the    *)
(* escrow id can be too long, and then the derivation fails.                *)

find_program_address(client, freelancer, escrow_id) ==
    IF Len(escrow_id) > MAX_SEED_LEN
    THEN [ok |-> FALSE, key |-> NoKey, bump |-> 0]
    ELSE [ok |-> TRUE, key |-> <<client, freelancer, escrow_id>>, bump |-> 255]

\* With the bump given (bump = escrow.bump).
create_program_address(client, freelancer, escrow_id, bump) ==
    LET pda == find_program_address(client, freelancer, escrow_id)
    IN  IF pda.ok /\ bump = pda.bump
        THEN pda
        ELSE [ok |-> FALSE, key |-> NoKey, bump |-> bump]

----------------------------------------------------------------------------
(* State *)

Result(op, err) == [op |-> op, err |-> err]

\* K1 can fund an escrow; K2 can pay the rent of one and no more, until it
\* is paid.
InitialLamports(k) ==
    IF k = "K1" THEN rent_exempt + MaxAmount ELSE rent_exempt

Init ==
    /\ now = 0
    /\ lamports = [k \in Keys |-> InitialLamports(k)]
    /\ escrows = << >>
    /\ last = Result("none", "Ok")
    /\ configs = << >>

Exists(key) == key \in DOMAIN escrows

----------------------------------------------------------------------------
(* InitializeConfig / initialize_config *)

Config_LEN == 1 + 32 + 1 + 1 + 2 + 32 + 1

\* The authorities that initialize a config, the treasuries they name and
\* the fee_bps they give: none, the intended maximum, one over it, and the
\* largest u16.
Authorities == {"K1", "K3"}
Treasuries == {"K2", "K3"}
FeeBps == {0, 10000, 10001, 65535}

\* The accounts of InitializeConfig: `config` is init at the address derived
\* from the authority's key (two short seeds), paid by the authority.
InitializeConfig(authority) ==
    IF authority \in DOMAIN configs THEN "AccountAlreadyInUse"
    ELSE IF lamports[authority] < minimum_balance(8 + Config_LEN)
         THEN "InsufficientLamports"
    ELSE "Ok"

\* A faulty variant: a fee above 100% is stored as 100%.
new_config_capped(authority, fee_bps, treasury) ==
    [bump      |-> 255,
     authority |-> authority,
     is_active |-> TRUE,
     is_paused |-> FALSE,
     fee_bps   |-> IF fee_bps > 10000 THEN 10000 ELSE fee_bps,
     treasury  |-> treasury,
     version   |-> 1]

\* The fields the handler writes.
new_config(authority, fee_bps, treasury) ==
    [bump      |-> 255,
     authority |-> authority,
     is_active |-> TRUE,
     is_paused |-> FALSE,
     fee_bps   |-> fee_bps,
     treasury  |-> treasury,
     version   |-> 1]

initialize_config(authority, fee_bps, treasury) ==
    LET err == InitializeConfig(authority)
    IN  /\ last' = Result("initialize_config", err)
        /\ IF err = "Ok"
           THEN /\ lamports' = [lamports EXCEPT
                                   ![authority] = @ - minimum_balance(8 + Config_LEN)]
                /\ configs' = configs @@
                       (authority :> new_config(authority, fee_bps, treasury))
           ELSE UNCHANGED <<lamports, configs>>
        /\ UNCHANGED <<now, escrows>>

----------------------------------------------------------------------------
(* CreateEscrow / create_escrow *)

\* The accounts of CreateEscrow: `escrow` is init at the address derived from
\* (client, freelancer, escrow_id), paid by the client.  The system program
\* refuses to create an account that exists, or that the payer cannot fund.
CreateEscrow(client, freelancer, escrow_id) ==
    LET pda == find_program_address(client, freelancer, escrow_id)
    IN  IF ~pda.ok THEN "MaxSeedLengthExceeded"
        ELSE IF Exists(pda.key) THEN "AccountAlreadyInUse"
        ELSE IF lamports[client] < rent_exempt THEN "InsufficientLamports"
        ELSE "Ok"

\* A faulty variant: the deadline check is off by one.
create_escrow_require_late(client, escrow_id, amount, deadline) ==
    IF ~(Len(escrow_id) <= EscrowIdMax) THEN "EscrowIdTooLong"
    ELSE IF ~(amount > 0) THEN "InvalidAmount"
    ELSE IF ~(deadline > now + 1) THEN "InvalidDeadline"
    ELSE IF lamports[client] - rent_exempt < amount THEN "InsufficientLamports"
    ELSE "Ok"

\* The handler's require!s, and the transfer's own failure, in the code's
\* order; the client has paid the rent of the new account by then.
create_escrow_require(client, escrow_id, amount, deadline) ==
    IF ~(Len(escrow_id) <= EscrowIdMax) THEN "EscrowIdTooLong"
    ELSE IF ~(amount > 0) THEN "InvalidAmount"
    ELSE IF ~(deadline > now) THEN "InvalidDeadline"
    ELSE IF lamports[client] - rent_exempt < amount THEN "InsufficientLamports"
    ELSE "Ok"

create_escrow_result(client, freelancer, escrow_id, amount, deadline) ==
    LET a == CreateEscrow(client, freelancer, escrow_id)
    IN  IF a # "Ok" THEN a
        ELSE create_escrow_require(client, escrow_id, amount, deadline)

\* The fields the handler writes.
new_escrow(client, freelancer, amount, deadline, escrow_id, bump) ==
    [client       |-> client,
     freelancer   |-> freelancer,
     amount       |-> amount,
     deadline     |-> deadline,
     is_submitted |-> FALSE,
     is_released  |-> FALSE,
     metadata_ref |-> << >>,
     escrow_id    |-> escrow_id,
     bump         |-> bump]

\* A faulty variant: the escrow account is initialised only if needed, so the
\* handler runs again on a record that exists.
create_escrow_if_needed(client, freelancer, escrow_id, amount, deadline) ==
    LET pda == find_program_address(client, freelancer, escrow_id)
        again == pda.ok /\ Exists(pda.key)
        rent == IF again THEN 0 ELSE rent_exempt
        err == IF ~again
               THEN create_escrow_result(client, freelancer, escrow_id, amount, deadline)
               ELSE IF ~(Len(escrow_id) <= EscrowIdMax) THEN "EscrowIdTooLong"
               ELSE IF ~(amount > 0) THEN "InvalidAmount"
               ELSE IF ~(deadline > now) THEN "InvalidDeadline"
               ELSE IF lamports[client] < amount THEN "InsufficientLamports"
               ELSE "Ok"
    IN  /\ last' = Result("create_escrow", err)
        /\ IF err = "Ok"
           THEN /\ lamports' = [lamports EXCEPT ![client] = @ - rent - amount]
                /\ escrows' = [k \in DOMAIN escrows \cup {pda.key} |->
                       IF k = pda.key
                       THEN [lamports |-> (IF again THEN escrows[k].lamports
                                                   ELSE rent_exempt) + amount,
                             data |-> new_escrow(client, freelancer, amount,
                                                 deadline, escrow_id, pda.bump)]
                       ELSE escrows[k]]
           ELSE UNCHANGED <<lamports, escrows>>
        /\ UNCHANGED <<now, configs>>

\* A faulty variant: the rent paid for the new account is not given back
\* when the handler refuses the call.
create_escrow_rent_kept(client, freelancer, escrow_id, amount, deadline) ==
    LET pda == find_program_address(client, freelancer, escrow_id)
        err == create_escrow_result(client, freelancer, escrow_id, amount, deadline)
    IN  /\ last' = Result("create_escrow", err)
        /\ IF err = "Ok"
           THEN /\ lamports' = [lamports EXCEPT ![client] = @ - rent_exempt - amount]
                /\ escrows' = escrows @@
                       (pda.key :> [lamports |-> rent_exempt + amount,
                                    data |-> new_escrow(client, freelancer, amount,
                                                        deadline, escrow_id, pda.bump)])
           ELSE IF CreateEscrow(client, freelancer, escrow_id) = "Ok"
           THEN /\ lamports' = [lamports EXCEPT ![client] = @ - rent_exempt]
                /\ UNCHANGED escrows
           ELSE UNCHANGED <<lamports, escrows>>
        /\ UNCHANGED <<now, configs>>

create_escrow(client, freelancer, escrow_id, amount, deadline) ==
    LET pda == find_program_address(client, freelancer, escrow_id)
        err == create_escrow_result(client, freelancer, escrow_id, amount, deadline)
    IN  /\ last' = Result("create_escrow", err)
        /\ IF err = "Ok"
           THEN /\ lamports' = [lamports EXCEPT ![client] = @ - rent_exempt - amount]
                /\ escrows' = escrows @@
                       (pda.key :> [lamports |-> rent_exempt + amount,
                                    data |-> new_escrow(client, freelancer, amount,
                                                        deadline, escrow_id, pda.bump)])
           ELSE UNCHANGED <<lamports, escrows>>
        /\ UNCHANGED <<now, configs>>

----------------------------------------------------------------------------
(* SubmitWork / submit_work *)

\* The accounts of SubmitWork, for an existing escrow account `key` and the
\* signer `freelancer`: the seeds constraint (with the signer's key as the
\* freelancer seed) is checked before the raw constraint.
SubmitWork(key, freelancer) ==
    LET escrow == escrows[key].data
        pda == create_program_address(escrow.client, freelancer,
                                      escrow.escrow_id, escrow.bump)
    IN  IF ~pda.ok \/ pda.key # key THEN "ConstraintSeeds"
        ELSE IF ~(escrow.freelancer = freelancer) THEN "UnauthorizedFreelancer"
        ELSE "Ok"

\* A faulty variant: a submission after the deadline is refused.
submit_work_require_deadline(escrow, metadata_ref) ==
    IF ~(Len(metadata_ref) <= MetadataMax) THEN "MetadataTooLong"
    ELSE IF ~(~escrow.is_released) THEN "AlreadyReleased"
    ELSE IF ~(~escrow.is_submitted) THEN "AlreadySubmitted"
    ELSE IF ~(now <= escrow.deadline) THEN "DeadlinePassed"
    ELSE "Ok"

\* A faulty variant: the submitted flag is checked before the released flag.
submit_work_require_swapped(escrow, metadata_ref) ==
    IF ~(Len(metadata_ref) <= MetadataMax) THEN "MetadataTooLong"
    ELSE IF ~(~escrow.is_submitted) THEN "AlreadySubmitted"
    ELSE IF ~(~escrow.is_released) THEN "AlreadyReleased"
    ELSE "Ok"

submit_work_require(escrow, metadata_ref) ==
    IF ~(Len(metadata_ref) <= MetadataMax) THEN "MetadataTooLong"
    ELSE IF ~(~escrow.is_released) THEN "AlreadyReleased"
    ELSE IF ~(~escrow.is_submitted) THEN "AlreadySubmitted"
    ELSE "Ok"

submit_work_result(key, freelancer, metadata_ref) ==
    LET a == SubmitWork(key, freelancer)
    IN  IF a # "Ok" THEN a
        ELSE submit_work_require(escrows[key].data, metadata_ref)

submitted(escrow, metadata_ref) ==
    [escrow EXCEPT !.metadata_ref = metadata_ref, !.is_submitted = TRUE]

submit_work(key, freelancer, metadata_ref) ==
    LET err == submit_work_result(key, freelancer, metadata_ref)
    IN  /\ Exists(key)
        /\ last' = Result("submit_work", err)
        /\ IF err = "Ok"
           THEN escrows' = [escrows EXCEPT ![key].data = submitted(@, metadata_ref)]
           ELSE UNCHANGED escrows
        /\ UNCHANGED <<now, lamports, configs>>

----------------------------------------------------------------------------
(* The release both handlers perform *)

\* A faulty variant: the whole balance is paid out, the rent with it.
transfer_amount_all(escrow_lamports) == escrow_lamports

\* escrow balance minus rent
transfer_amount(escrow_lamports) == saturating_sub(escrow_lamports, rent_exempt)

\* A faulty variant: the amount is left as it was.
released_keeps_amount(escrow) == [escrow EXCEPT !.is_released = TRUE]

released(escrow) == [escrow EXCEPT !.is_released = TRUE, !.amount = 0]

\* The lamports leave the escrow account and reach the freelancer's account;
\* then the flags are written.
Release(key, freelancer) ==
    LET t == transfer_amount(escrows[key].lamports)
    IN  /\ escrows' = [escrows EXCEPT ![key].lamports = @ - t,
                                      ![key].data = released(@)]
        /\ lamports' = [lamports EXCEPT ![freelancer] = @ + t]

----------------------------------------------------------------------------
(* ApproveRelease / approve_release *)

\* A faulty variant: the escrow address is derived from the stored client,
\* and the signer is not compared with it.
ApproveRelease_any(key, client, freelancer) ==
    LET escrow == escrows[key].data
        pda == create_program_address(escrow.client, escrow.freelancer,
                                      escrow.escrow_id, escrow.bump)
    IN  IF ~pda.ok \/ pda.key # key THEN "ConstraintSeeds"
        ELSE IF ~(freelancer = escrow.freelancer) THEN "UnauthorizedFreelancer"
        ELSE "Ok"

\* The accounts of ApproveRelease, for an existing escrow account `key`, the
\* signer `client` and the account `freelancer` that is to receive.
ApproveRelease(key, client, freelancer) ==
    LET escrow == escrows[key].data
        pda == create_program_address(client, escrow.freelancer,
                                      escrow.escrow_id, escrow.bump)
    IN  IF ~pda.ok \/ pda.key # key THEN "ConstraintSeeds"
        ELSE IF ~(escrow.client = client) THEN "UnauthorizedClient"
        ELSE IF ~(freelancer = escrow.freelancer) THEN "UnauthorizedFreelancer"
        ELSE "Ok"

\* A faulty variant: a released escrow can be released again.
approve_release_require_again(escrow) ==
    IF ~escrow.is_submitted THEN "WorkNotSubmitted" ELSE "Ok"

\* A faulty variant: an escrow can be released before the work is submitted.
approve_release_require_early(escrow) ==
    IF ~(~escrow.is_released) THEN "AlreadyReleased" ELSE "Ok"

approve_release_require(escrow) ==
    IF ~escrow.is_submitted THEN "WorkNotSubmitted"
    ELSE IF ~(~escrow.is_released) THEN "AlreadyReleased"
    ELSE "Ok"

approve_release_result(key, client, freelancer) ==
    LET a == ApproveRelease(key, client, freelancer)
    IN  IF a # "Ok" THEN a
        ELSE approve_release_require(escrows[key].data)

approve_release(key, client, freelancer) ==
    LET err == approve_release_result(key, client, freelancer)
    IN  /\ Exists(key)
        /\ last' = Result("approve_release", err)
        /\ IF err = "Ok"
           THEN Release(key, freelancer)
           ELSE UNCHANGED <<lamports, escrows>>
        /\ UNCHANGED <<now, configs>>

----------------------------------------------------------------------------
(* TriggerAutoRelease / trigger_auto_release *)

\* A faulty variant: the receiving account is not checked.
TriggerAutoRelease_any(key, freelancer) ==
    LET escrow == escrows[key].data
        pda == create_program_address(escrow.client, escrow.freelancer,
                                      escrow.escrow_id, escrow.bump)
    IN  IF ~pda.ok \/ pda.key # key THEN "ConstraintSeeds" ELSE "Ok"

\* The accounts of TriggerAutoRelease: no signer; the seeds are the escrow's
\* own fields; the receiving account must be the stored freelancer.
TriggerAutoRelease(key, freelancer) ==
    LET escrow == escrows[key].data
        pda == create_program_address(escrow.client, escrow.freelancer,
                                      escrow.escrow_id, escrow.bump)
    IN  IF ~pda.ok \/ pda.key # key THEN "ConstraintSeeds"
        ELSE IF ~(freelancer = escrow.freelancer) THEN "UnauthorizedFreelancer"
        ELSE "Ok"

\* A faulty variant: the release is allowed at the deadline itself.
trigger_auto_release_require_at(escrow) ==
    IF ~escrow.is_submitted THEN "WorkNotSubmitted"
    ELSE IF ~(~escrow.is_released) THEN "AlreadyReleased"
    ELSE IF ~(now >= escrow.deadline) THEN "DeadlineNotPassed"
    ELSE "Ok"

\* A faulty variant: the deadline is checked before the submission.
trigger_auto_release_require_order(escrow) ==
    IF ~(~escrow.is_released) THEN "AlreadyReleased"
    ELSE IF ~(now > escrow.deadline) THEN "DeadlineNotPassed"
    ELSE IF ~escrow.is_submitted THEN "WorkNotSubmitted"
    ELSE "Ok"

\* A faulty variant: the release is allowed only before the deadline.
trigger_auto_release_require_before(escrow) ==
    IF ~escrow.is_submitted THEN "WorkNotSubmitted"
    ELSE IF ~(~escrow.is_released) THEN "AlreadyReleased"
    ELSE IF ~(now < escrow.deadline) THEN "DeadlineNotPassed"
    ELSE "Ok"

trigger_auto_release_require(escrow) ==
    IF ~escrow.is_submitted THEN "WorkNotSubmitted"
    ELSE IF ~(~escrow.is_released) THEN "AlreadyReleased"
    ELSE IF ~(now > escrow.deadline) THEN "DeadlineNotPassed"
    ELSE "Ok"

trigger_auto_release_result(key, freelancer) ==
    LET a == TriggerAutoRelease(key, freelancer)
    IN  IF a # "Ok" THEN a
        ELSE trigger_auto_release_require(escrows[key].data)

\* `caller` is whoever sends the transaction: no account of the instruction.
trigger_auto_release(key, caller, freelancer) ==
    LET err == trigger_auto_release_result(key, freelancer)
    IN  /\ Exists(key)
        /\ caller \in Keys
        /\ last' = Result("trigger_auto_release", err)
        /\ IF err = "Ok"
           THEN Release(key, freelancer)
           ELSE UNCHANGED <<lamports, escrows>>
        /\ UNCHANGED <<now, configs>>

----------------------------------------------------------------------------
(* The environment *)

\* The clock advances, until it is past the latest deadline.
Tick ==
    /\ now <= MaxTime
    /\ now' = now + 1
    /\ last' = Result("tick", "Ok")
    /\ UNCHANGED <<lamports, escrows, configs>>

\* A system transfer to an escrow account from a wallet that is no party of
\* the model: anyone can send lamports to any address, without the program.
\* The model lets an account hold one such deposit at a time.
ExternalDeposit(key, n) ==
    /\ Exists(key)
    /\ escrows[key].lamports = rent_exempt + escrows[key].data.amount
    /\ escrows' = [escrows EXCEPT ![key].lamports = @ + n]
    /\ last' = Result("deposit", "Ok")
    /\ UNCHANGED <<now, lamports, configs>>

----------------------------------------------------------------------------
(* Specifications *)

\* One instruction of the program, or a tick of the clock; `deals` are the
\* pairs that create escrows.
Step(deals) ==
    \/ \E deal \in deals, escrow_id \in EscrowIds,
          amount \in Amounts, deadline \in Deadlines :
            create_escrow(deal[1], deal[2], escrow_id, amount, deadline)
    \/ \E key \in DOMAIN escrows, freelancer \in Keys, metadata_ref \in MetadataRefs :
            submit_work(key, freelancer, metadata_ref)
    \/ \E key \in DOMAIN escrows, client \in Keys, freelancer \in Keys :
            approve_release(key, client, freelancer)
    \/ \E key \in DOMAIN escrows, caller \in Keys, freelancer \in Keys :
            trigger_auto_release(key, caller, freelancer)
    \/ Tick

Next == Step(Deals)

\* The program's instructions and the clock.
Spec == Init /\ [][Next]_vars

NextExt ==
    \/ Step(ExtDeals)
    \/ \E key \in DOMAIN escrows, n \in 1..MaxDeposit :
            ExternalDeposit(key, n)

\* One escrow, with lamports also sent to its account from outside.
SpecExt == Init /\ [][NextExt]_vars

NextConfig ==
    \/ Step(ExtDeals)
    \/ \E authority \in Authorities, fee_bps \in FeeBps, treasury \in Treasuries :
            initialize_config(authority, fee_bps, treasury)

\* One escrow, and the configs.
SpecConfig == Init /\ [][NextConfig]_vars

\* The addresses an escrow of `deals` can have.
EscrowKeys(deals) ==
    {find_program_address(deal[1], deal[2], escrow_id).key :
        deal \in deals,
        escrow_id \in {id \in EscrowIds : Len(id) <= MAX_SEED_LEN}}

\* Some party invokes TriggerAutoRelease on `key`, for its freelancer.
AutoRelease(key) ==
    /\ Exists(key)
    /\ \E caller \in Keys :
          trigger_auto_release(key, caller, escrows[key].data.freelancer)

NextLive == Step(ExtDeals)

\* Time keeps advancing and TriggerAutoRelease keeps being invoked.
Fairness ==
    /\ WF_vars(Tick)
    /\ \A key \in EscrowKeys(ExtDeals) : WF_vars(AutoRelease(key))

SpecLive == Init /\ [][NextLive]_vars /\ Fairness

----------------------------------------------------------------------------
(* Properties *)

Data(key) == escrows[key].data

\* An invocation is well formed when the accounts it passes are the ones
\* the record stores.
IsApprove(key, client, freelancer) ==
    /\ last'.op = "approve_release"
    /\ approve_release(key, client, freelancer)

IsTrigger(key, caller, freelancer) ==
    /\ last'.op = "trigger_auto_release"
    /\ trigger_auto_release(key, caller, freelancer)

IsSubmit(key, freelancer, metadata_ref) ==
    /\ last'.op = "submit_work"
    /\ submit_work(key, freelancer, metadata_ref)

IsCreate(client, freelancer, escrow_id, amount, deadline) ==
    /\ last'.op = "create_escrow"
    /\ create_escrow(client, freelancer, escrow_id, amount, deadline)

\* The step is a release instruction on `key`, whatever its accounts.
IsRelease(key) ==
    \E a \in Keys, b \in Keys :
        IsApprove(key, a, b) \/ IsTrigger(key, a, b)

\* The step is the release of `key` to `freelancer`, of `t` lamports.
Pays(key, freelancer, t) ==
    /\ escrows'[key].lamports = escrows[key].lamports - t
    /\ lamports' = [lamports EXCEPT ![freelancer] = @ + t]
    /\ escrows'[key].data = [Data(key) EXCEPT !.is_released = TRUE, !.amount = 0]
    /\ \A other \in DOMAIN escrows \ {key} : escrows'[other] = escrows[other]

\* max(0, balance - reserve)
Excess(key) ==
    IF escrows[key].lamports - rent_exempt > 0
    THEN escrows[key].lamports - rent_exempt
    ELSE 0

\* C1: for one record, over every sequence of ApproveRelease and
\* TriggerAutoRelease invocations, at most one succeeds: a release succeeds
\* only on an unreleased record, which it leaves released for good; every
\* release invoked after that fails and moves no value, with AlreadyReleased
\* when its handler runs (its accounts are the record's own).
C1_AtMostOneRelease ==
    [][\A key \in DOMAIN escrows :
        /\ IsRelease(key) /\ last'.err = "Ok"
              => ~Data(key).is_released /\ escrows'[key].data.is_released
        /\ Data(key).is_released => escrows'[key].data.is_released
        /\ Data(key).is_released /\ IsRelease(key)
              => last'.err # "Ok" /\ UNCHANGED <<lamports, escrows>>
        /\ Data(key).is_released =>
              /\ IsApprove(key, Data(key).client, Data(key).freelancer)
                    => last'.err = "AlreadyReleased"
              /\ \A caller \in Keys :
                    IsTrigger(key, caller, Data(key).freelancer)
                        => last'.err = "AlreadyReleased"
      ]_vars

C1_Witness ==
    /\ last.op \in {"approve_release", "trigger_auto_release"}
    /\ last.err = "AlreadyReleased"

\* C2: ApproveRelease by the client fails with WorkNotSubmitted on a record
\* that is not submitted; on a submitted, unreleased record it succeeds at
\* any time, moves exactly max(0, balance - reserve) from the record to the
\* freelancer, and sets is_released = true and amount = 0.
C2_Approve ==
    [][\A key \in DOMAIN escrows :
        IsApprove(key, Data(key).client, Data(key).freelancer) =>
            /\ ~Data(key).is_submitted =>
                  /\ last'.err = "WorkNotSubmitted"
                  /\ UNCHANGED <<lamports, escrows>>
            /\ Data(key).is_submitted /\ ~Data(key).is_released =>
                  /\ last'.err = "Ok"
                  /\ Pays(key, Data(key).freelancer, Excess(key))
      ]_vars

\* An approval after the deadline, of a balance with an outside deposit in it.
C2_Witness ==
    /\ last = Result("approve_release", "Ok")
    /\ \E key \in DOMAIN escrows :
          /\ Data(key).is_released
          /\ now > Data(key).deadline
          /\ lamports[Data(key).freelancer]
                > InitialLamports(Data(key).freelancer) + MaxAmount

\* C3 as stated: Create(amount = A), SubmitWork, ApproveRelease, nothing
\* else touching the record: the approval raises the freelancer's balance by
\* exactly A - reserve.
C3_Original ==
    [][\A key \in DOMAIN escrows :
        IsApprove(key, Data(key).client, Data(key).freelancer) /\ last'.err = "Ok"
            => lamports'[Data(key).freelancer]
                  = lamports[Data(key).freelancer] + Data(key).amount - rent_exempt
      ]_vars

\* C3, amended: in that sequence the approval raises the freelancer's
\* balance by exactly A.  Create stores A and leaves reserve + A in the
\* record; nothing but a release changes the stored amount or the balance;
\* the approval pays the stored amount.
C3_EndToEnd ==
    [][/\ last' = Result("create_escrow", "Ok") =>
            \A deal \in Deals, escrow_id \in EscrowIds, A \in Amounts, deadline \in Deadlines :
                IsCreate(deal[1], deal[2], escrow_id, A, deadline)
                => LET key == <<deal[1], deal[2], escrow_id>>
                   IN  /\ escrows'[key].data.amount = A
                       /\ escrows'[key].lamports = rent_exempt + A
       /\ \A key \in DOMAIN escrows :
            /\ ~escrows'[key].data.is_released
                  => /\ escrows'[key].data.amount = Data(key).amount
                     /\ escrows'[key].lamports = escrows[key].lamports
            /\ IsApprove(key, Data(key).client, Data(key).freelancer) /\ last'.err = "Ok"
                  => /\ Data(key).is_submitted
                     /\ lamports'[Data(key).freelancer]
                           = lamports[Data(key).freelancer] + Data(key).amount
      ]_vars

C3_Witness ==
    /\ last = Result("approve_release", "Ok")
    /\ lamports["K2"] = InitialLamports("K2") + MaxAmount

InitLamportsOk(client, amount) == lamports[client] >= rent_exempt + amount

\* C4: a CreateEscrow call with an escrow id of at most 32 bytes, amount > 0
\* and a deadline after the current time (for a triple that has no record
\* yet, by a client holding the reserve and the amount) succeeds; the new
\* record holds exactly amount on top of its reserve, paid by the client,
\* and its fields are the given client, freelancer, amount, deadline and
\* escrow id, is_submitted = false, is_released = false, metadata_ref = "".
C4_Create ==
    [][last'.op = "create_escrow" =>
       \A deal \in Deals, escrow_id \in EscrowIds, amount \in Amounts, deadline \in Deadlines :
        LET key == <<deal[1], deal[2], escrow_id>>
        IN  /\ Len(escrow_id) <= 32
            /\ amount > 0
            /\ deadline > now
            /\ key \notin DOMAIN escrows
            /\ InitLamportsOk(deal[1], amount)
            /\ IsCreate(deal[1], deal[2], escrow_id, amount, deadline)
            => /\ last'.err = "Ok"
               /\ DOMAIN escrows' = DOMAIN escrows \cup {key}
               /\ escrows'[key].lamports = rent_exempt + amount
               /\ lamports' = [lamports EXCEPT ![deal[1]] = @ - (rent_exempt + amount)]
               /\ escrows'[key].data.client = deal[1]
               /\ escrows'[key].data.freelancer = deal[2]
               /\ escrows'[key].data.amount = amount
               /\ escrows'[key].data.deadline = deadline
               /\ escrows'[key].data.escrow_id = escrow_id
               /\ escrows'[key].data.is_submitted = FALSE
               /\ escrows'[key].data.is_released = FALSE
               /\ escrows'[key].data.metadata_ref = << >>
               /\ \A other \in DOMAIN escrows : escrows'[other] = escrows[other]
      ]_vars

\* A record right after its creation, with the largest amount and the
\* latest deadline.
C4_Witness ==
    /\ last = Result("create_escrow", "Ok")
    /\ \E key \in DOMAIN escrows :
          /\ Data(key).amount = MaxAmount
          /\ Data(key).deadline = MaxTime
          /\ escrows[key].lamports = rent_exempt + MaxAmount
          /\ ~Data(key).is_submitted

\* C5 as stated: CreateEscrow with an escrow id longer than 32 bytes fails
\* with EscrowIdTooLong, whatever the amount and the deadline; no record is
\* created and no balance changes.
C5_EscrowIdTooLong ==
    [][\A deal \in Deals, escrow_id \in EscrowIds, amount \in Amounts, deadline \in Deadlines :
        IsCreate(deal[1], deal[2], escrow_id, amount, deadline) /\ Len(escrow_id) > 32
            => /\ last'.err = "EscrowIdTooLong"
               /\ UNCHANGED <<lamports, escrows>>
      ]_vars

\* C6 as stated: SubmitWork against a record by an identity other than the
\* stored freelancer fails with UnauthorizedFreelancer and leaves
\* is_submitted and metadata_ref unchanged.
C6_UnauthorizedFreelancer ==
    [][\A key \in DOMAIN escrows, signer \in Keys, metadata_ref \in MetadataRefs :
        IsSubmit(key, signer, metadata_ref) /\ signer # Data(key).freelancer
            => /\ last'.err = "UnauthorizedFreelancer"
               /\ escrows'[key].data.is_submitted = Data(key).is_submitted
               /\ escrows'[key].data.metadata_ref = Data(key).metadata_ref
      ]_vars

\* C7: TriggerAutoRelease on a submitted, unreleased record fails with
\* DeadlineNotPassed while the current time is at most the deadline; once
\* the time is past the deadline it succeeds for any caller and has the
\* effect of ApproveRelease: max(0, balance - reserve) moves to the
\* freelancer, is_released = true, amount = 0.
C7_AutoRelease ==
    [][\A key \in DOMAIN escrows, caller \in Keys :
        /\ IsTrigger(key, caller, Data(key).freelancer)
        /\ Data(key).is_submitted
        /\ ~Data(key).is_released
        => /\ now <= Data(key).deadline =>
                 /\ last'.err = "DeadlineNotPassed"
                 /\ UNCHANGED <<lamports, escrows>>
           /\ now > Data(key).deadline =>
                 /\ last'.err = "Ok"
                 /\ Pays(key, Data(key).freelancer, Excess(key))
      ]_vars

\* An automatic release of a balance with an outside deposit in it.
C7_Witness ==
    /\ last = Result("trigger_auto_release", "Ok")
    /\ \E key \in DOMAIN escrows :
          /\ Data(key).is_released
          /\ now > Data(key).deadline
          /\ lamports[Data(key).freelancer]
                > InitialLamports(Data(key).freelancer) + Data(key).amount

\* C8: while a record is not submitted no operation moves value out of it:
\* TriggerAutoRelease fails with WorkNotSubmitted before and after the
\* deadline, ApproveRelease fails with WorkNotSubmitted, and the record's
\* balance stays what it was right after Create for as long as it is not
\* submitted.
C8_LockedUntilSubmitted ==
    [][\A key \in DOMAIN escrows :
        /\ ~escrows'[key].data.is_submitted
              => escrows'[key].lamports = escrows[key].lamports
        /\ ~Data(key).is_submitted =>
              /\ escrows[key].lamports = rent_exempt + Data(key).amount
              /\ \A caller \in Keys :
                    IsTrigger(key, caller, Data(key).freelancer)
                        => last'.err = "WorkNotSubmitted"
              /\ IsApprove(key, Data(key).client, Data(key).freelancer)
                    => last'.err = "WorkNotSubmitted"
              /\ IsRelease(key)
                    => last'.err # "Ok" /\ UNCHANGED <<lamports, escrows>>
      ]_vars

\* An automatic release refused after the deadline, the work not submitted.
C8_Witness ==
    /\ last = Result("trigger_auto_release", "WorkNotSubmitted")
    /\ \E key \in DOMAIN escrows :
          /\ ~Data(key).is_submitted
          /\ now > Data(key).deadline
          /\ escrows[key].lamports = rent_exempt + Data(key).amount

\* C9: in every state is_released implies is_submitted, and neither flag
\* goes from true back to false.
C9_ReleasedImpliesSubmitted ==
    /\ [](\A key \in DOMAIN escrows : Data(key).is_released => Data(key).is_submitted)
    /\ [][\A key \in DOMAIN escrows :
            /\ Data(key).is_submitted => escrows'[key].data.is_submitted
            /\ Data(key).is_released => escrows'[key].data.is_released
         ]_vars

C9_Witness ==
    \E key \in DOMAIN escrows :
        /\ Data(key).is_released
        /\ Data(key).is_submitted
        /\ last.op \notin {"approve_release", "trigger_auto_release"}

\* C10: Released is terminal: a released record has amount 0, and every
\* later SubmitWork, ApproveRelease and TriggerAutoRelease on it fails and
\* leaves all its fields and its balance unchanged.
C10_ReleasedTerminal ==
    /\ [](\A key \in DOMAIN escrows : Data(key).is_released => Data(key).amount = 0)
    /\ [][\A key \in DOMAIN escrows : Data(key).is_released =>
            /\ escrows'[key] = escrows[key]
            /\ IsRelease(key) => last'.err # "Ok"
            /\ \A signer \in Keys, metadata_ref \in MetadataRefs :
                  IsSubmit(key, signer, metadata_ref) => last'.err # "Ok"
         ]_vars

C10_Witness ==
    /\ last = Result("submit_work", "AlreadyReleased")
    /\ \E key \in DOMAIN escrows : Data(key).is_released /\ Data(key).amount = 0

\* C11: every existing escrow record holds at least the reserve of a record
\* of its size, also after a release and also when lamports were sent to it
\* from outside the program.
C11_ReserveKept ==
    \A key \in DOMAIN escrows : escrows[key].lamports >= rent_exempt

\* A released record that was sent lamports after its release.
C11_Witness ==
    /\ last = Result("deposit", "Ok")
    /\ \E key \in DOMAIN escrows :
          /\ Data(key).is_released
          /\ escrows[key].lamports > rent_exempt

ProgramOps ==
    {"initialize_config", "create_escrow", "submit_work",
     "approve_release", "trigger_auto_release"}

\* C12: an instruction that returns an error leaves all state unchanged: no
\* record is created, no field of a record changes and no balance changes.
C12_ErrorsChangeNothing ==
    [][last'.op \in ProgramOps /\ last'.err # "Ok"
          => UNCHANGED <<now, lamports, escrows, configs>>
      ]_vars

\* A submission refused for its metadata, on a record still not submitted.
C12_Witness ==
    /\ last = Result("submit_work", "MetadataTooLong")
    /\ \E key \in DOMAIN escrows :
          ~Data(key).is_submitted /\ Data(key).metadata_ref = << >>

\* C13: released funds go only to the stored freelancer: a successful
\* ApproveRelease or TriggerAutoRelease raises no balance but that of
\* record.freelancer, whoever calls and whatever account is passed to
\* receive; an invocation that names another recipient fails and moves no
\* value.
C13_OnlyFreelancerPaid ==
    [][last'.op \in {"approve_release", "trigger_auto_release"} =>
        /\ \A other \in DOMAIN escrows :
              escrows'[other].lamports <= escrows[other].lamports
        /\ \A key \in DOMAIN escrows, a \in Keys, recipient \in Keys :
              \/ /\ recipient # Data(key).freelancer =>
                        /\ last'.err # "Ok"
                        /\ UNCHANGED <<lamports, escrows>>
                 /\ \A k \in Keys :
                        lamports'[k] > lamports[k] => k = Data(key).freelancer
              \/ ~(IsApprove(key, a, recipient) \/ IsTrigger(key, a, recipient))
      ]_vars

\* An automatic release refused for its recipient, and a freelancer paid.
C13_Witness ==
    /\ last = Result("trigger_auto_release", "UnauthorizedFreelancer")
    /\ \E key \in DOMAIN escrows :
          /\ Data(key).is_released
          /\ lamports[Data(key).freelancer] > InitialLamports(Data(key).freelancer)

\* C14: no release at or before the deadline without the client: a record
\* that becomes released while the time is at most its deadline is released
\* by an ApproveRelease signed by the stored client; ApproveRelease succeeds
\* only with that signer, and by any other identity it fails and changes
\* nothing.
C14_ClientApproves ==
    [][\A key \in DOMAIN escrows :
        /\ ~Data(key).is_released /\ escrows'[key].data.is_released
           /\ now <= Data(key).deadline
              => IsApprove(key, Data(key).client, Data(key).freelancer)
        /\ \/ /\ last'.err # "Ok"
              /\ UNCHANGED <<lamports, escrows>>
           \/ \A signer \in Keys \ {Data(key).client}, recipient \in Keys :
                  ~IsApprove(key, signer, recipient)
      ]_vars

\* A release by the client's approval, the deadline not yet reached.
C14_Witness ==
    /\ last = Result("approve_release", "Ok")
    /\ \E key \in DOMAIN escrows :
          Data(key).is_released /\ now < Data(key).deadline

\* C15: InitializeConfig by an authority that has no config (and holds the
\* rent of one) succeeds for every fee_bps of the u16 range, also above
\* 10000, and stores authority = caller, is_active = TRUE, is_paused = FALSE,
\* the given fee_bps and treasury, and version = 1; a second InitializeConfig
\* by the same authority fails and leaves the config as it is; no step of
\* the program changes or removes a config that exists.
C15_ConfigOnce ==
    [][/\ \A authority \in Authorities, fee_bps \in FeeBps, treasury \in Treasuries :
            last'.op = "initialize_config"
            /\ initialize_config(authority, fee_bps, treasury) =>
                /\ authority \notin DOMAIN configs
                   /\ lamports[authority] >= minimum_balance(8 + Config_LEN)
                      => /\ last'.err = "Ok"
                         /\ authority \in DOMAIN configs'
                         /\ configs'[authority].authority = authority
                         /\ configs'[authority].is_active = TRUE
                         /\ configs'[authority].is_paused = FALSE
                         /\ configs'[authority].fee_bps = fee_bps
                         /\ configs'[authority].treasury = treasury
                         /\ configs'[authority].version = 1
                /\ authority \in DOMAIN configs
                      => /\ last'.err # "Ok"
                         /\ UNCHANGED <<configs, lamports, escrows>>
       /\ \A authority \in DOMAIN configs :
            /\ authority \in DOMAIN configs'
            /\ configs'[authority] = configs[authority]
      ]_vars

\* A second InitializeConfig refused, the first having stored the largest fee.
C15_Witness ==
    /\ last = Result("initialize_config", "AccountAlreadyInUse")
    /\ \E authority \in DOMAIN configs :
          /\ configs[authority].fee_bps = 65535
          /\ configs[authority].version = 1

\* C16: SubmitWork checks no deadline: on a record neither submitted nor
\* released, SubmitWork by the freelancer (metadata of at most 256 bytes)
\* succeeds also when the time is past the deadline, and right after it, and
\* at every time past the deadline while the record is submitted and not
\* released, TriggerAutoRelease to the freelancer would succeed.
C16_LateSubmit ==
    /\ [][\A key \in DOMAIN escrows, metadata_ref \in MetadataRefs :
            /\ ~Data(key).is_submitted
            /\ ~Data(key).is_released
            /\ now > Data(key).deadline
            /\ Len(metadata_ref) <= MetadataMax
            /\ IsSubmit(key, Data(key).freelancer, metadata_ref)
            => /\ last'.err = "Ok"
               /\ escrows'[key].data.is_submitted
               /\ (trigger_auto_release_result(key, Data(key).freelancer) = "Ok")'
         ]_vars
    /\ [](\A key \in DOMAIN escrows :
            /\ Data(key).is_submitted
            /\ ~Data(key).is_released
            /\ now > Data(key).deadline
            => trigger_auto_release_result(key, Data(key).freelancer) = "Ok")

\* Work submitted after the deadline, not yet released.
C16_Witness ==
    /\ last = Result("submit_work", "Ok")
    /\ \E key \in DOMAIN escrows :
          /\ Data(key).is_submitted
          /\ ~Data(key).is_released
          /\ now > Data(key).deadline

\* C17: work is submitted at most once: SubmitWork by the freelancer (metadata
\* of at most 256 bytes) fails with AlreadySubmitted on a record submitted and
\* not released, and with AlreadyReleased on a released record; no step
\* changes the metadata_ref of a submitted record.
C17_SubmitOnce ==
    [][\A key \in DOMAIN escrows :
        /\ \A metadata_ref \in MetadataRefs :
              /\ Len(metadata_ref) <= MetadataMax
              /\ IsSubmit(key, Data(key).freelancer, metadata_ref)
              => /\ Data(key).is_submitted /\ ~Data(key).is_released
                    => last'.err = "AlreadySubmitted"
                 /\ Data(key).is_released
                    => last'.err = "AlreadyReleased"
        /\ Data(key).is_submitted
              => /\ escrows'[key].data.metadata_ref = Data(key).metadata_ref
                 /\ escrows'[key].data.is_submitted
      ]_vars

\* A second submission refused, the first metadata still stored.
C17_Witness ==
    /\ last = Result("submit_work", "AlreadySubmitted")
    /\ \E key \in DOMAIN escrows :
          /\ Data(key).is_submitted
          /\ ~Data(key).is_released
          /\ Data(key).metadata_ref # << >>

\* C18: funding is single-shot: a CreateEscrow for a triple whose record
\* exists fails, leaves the record unchanged and moves no lamports; and no
\* step of the program raises the balance of a record that exists.
C18_SingleShot ==
    [][/\ \A key \in DOMAIN escrows :
            /\ key \in DOMAIN escrows'
            /\ escrows'[key].lamports <= escrows[key].lamports
       /\ last'.op = "create_escrow" =>
            \/ /\ last'.err # "Ok"
               /\ UNCHANGED <<lamports, escrows>>
            \/ \A d \in Deals, escrow_id \in EscrowIds :
                  Exists(find_program_address(d[1], d[2], escrow_id).key) =>
                      \A amount \in Amounts, deadline \in Deadlines :
                          ~IsCreate(d[1], d[2], escrow_id, amount, deadline)
      ]_vars

\* A CreateEscrow refused because the record of its triple exists.
C18_Witness ==
    /\ last = Result("create_escrow", "AccountAlreadyInUse")
    /\ \E key \in DOMAIN escrows : escrows[key].lamports > rent_exempt

\* C19: with lamports entering a record only through CreateEscrow, a record
\* not released holds rent_exempt + amount, and a released record holds
\* rent_exempt with amount = 0; a successful release pays the stored
\* freelancer exactly the amount field, which is the amount given at Create.
C19_AmountIsReleasable ==
    /\ [](\A key \in DOMAIN escrows :
            IF Data(key).is_released
            THEN escrows[key].lamports = rent_exempt /\ Data(key).amount = 0
            ELSE escrows[key].lamports = rent_exempt + Data(key).amount)
    /\ [][\A key \in DOMAIN escrows :
            /\ ~Data(key).is_released => escrows'[key].data.amount = Data(key).amount
                                         \/ escrows'[key].data.is_released
            /\ ~Data(key).is_released /\ escrows'[key].data.is_released
                  => lamports' = [lamports EXCEPT ![Data(key).freelancer] =
                                                      @ + Data(key).amount]
         ]_vars

\* An automatic release of the largest amount, all of it paid.
C19_Witness ==
    /\ last = Result("trigger_auto_release", "Ok")
    /\ \E key \in DOMAIN escrows :
          /\ Data(key).is_released
          /\ Data(key).amount = 0
          /\ escrows[key].lamports = rent_exempt
          /\ lamports[Data(key).freelancer]
                = InitialLamports(Data(key).freelancer) + MaxAmount

\* C20: automatic release is a working safety valve: when time keeps
\* advancing and TriggerAutoRelease keeps being invoked, a record that is
\* submitted and not released is eventually released, whatever the client
\* does or does not do.
C20_EventuallyReleased ==
    \A key \in EscrowKeys(ExtDeals) :
        (Exists(key) /\ Data(key).is_submitted /\ ~Data(key).is_released)
            ~> (Exists(key) /\ Data(key).is_released)

\* An automatic release of a record with the latest deadline.
C20_Witness ==
    /\ last = Result("trigger_auto_release", "Ok")
    /\ now = MaxTime + 1
    /\ \E key \in DOMAIN escrows :
          /\ Data(key).is_released
          /\ Data(key).deadline = MaxTime

====
